---- MODULE Spec2Model ----
(***************************************************************************)
(* Model of verificador_goldbach.py: the segmented sieve, the batch        *)
(* verifier, and the driver with its checkpoint file.                      *)
(*                                                                         *)
(* Three specifications share the module:                                  *)
(*   SpecCriba  criba_eratostenes_segmentada, one step per segment         *)
(*   SpecRango  verificar_goldbach_rango, one step per even n              *)
(*   Spec       verificacion_masiva_goldbach over several sessions         *)
(* Lists are sequences, Python's range(a, b, s) is the operator Range.     *)
(***************************************************************************)
EXTENDS Integers, Sequences, FiniteSets, TLC

(* ------------------------------ bounds -------------------------------- *)
MaxLimite == 64

MaxRango == 40

MaxNFinal == 14

MaxBatch == 4

MaxCores == 3

MaxSesiones == 2

(* ------------------------- program constants -------------------------- *)
SegmentoMaximo == 1000000

NInicial == 6

(* ------------------------------- state -------------------------------- *)
\* criba_eratostenes_segmentada: its argument, its position and its locals
VARIABLES c_limite, c_pc, c_inicio, c_pequenos, c_primos

cvars == <<c_limite, c_pc, c_inicio, c_pequenos, c_primos>>

\* verificar_goldbach_rango: its arguments, its position and its locals;
\* v_hist is the history of (n, representaciones) of the iterations done
VARIABLES v_inicio, v_fin, v_pc, v_n, v_primos, v_res, v_hist

rvars == <<v_inicio, v_fin, v_pc, v_n, v_primos, v_res, v_hist>>

\* verificacion_masiva_goldbach: the CONFIG entries it reads, the checkpoint
\* file, and the locals of the running session
VARIABLES n_final, tamano_batch, num_cores, archivo, progreso, pc, n_actual,
          batches, pendientes, resultados, indice

\* history of the driver, read by the properties only:
\*   sesiones     sessions started so far
\*   historial    how each finished session ended
\*   cargado      what cargar_progreso returned in this session
\*   primero      the first number verified in this session, <<>> if none yet
\*   cubiertos    how many batches of this session iterate over each even number
\*   despachados  the ranges of the batches dispatched in this session
\*   integrados   the ranges of the batches merged (lines 424-428) in this session
\*   desordenado  in this round a worker finished before one submitted earlier
\*   contado      how many times each even number was added to total_verificados
\*   fusionados   the results whose lines 424-427 have all run, in order
VARIABLES sesiones, historial, cargado, primero, cubiertos, despachados, integrados,
          desordenado, contado, fusionados

dvars == <<n_final, tamano_batch, num_cores, archivo, progreso, pc, n_actual,
           batches, pendientes, resultados, indice>>

hvars == <<sesiones, historial, cargado, primero, cubiertos, despachados, integrados,
           desordenado, contado, fusionados>>

vars == <<cvars, rvars, dvars, hvars>>

(* ------------------------------ helpers ------------------------------- *)
Min(a, b) == IF a <= b THEN a ELSE b

Max(a, b) == IF a >= b THEN a ELSE b

\* int(math.sqrt(n)) for n >= 0
ISqrt(n) == CHOOSE k \in 0..n : k * k <= n /\ (k + 1) * (k + 1) > n

\* the values of range(desde, hasta, paso), paso > 0, as a set
Range(desde, hasta, paso) == {j \in desde..(hasta - 1) : (j - desde) % paso = 0}

\* [i for i in range(desde, hasta) if i in vivos]
RECURSIVE ListaDe(_, _, _)
ListaDe(desde, hasta, vivos) ==
    IF desde >= hasta THEN <<>>
    ELSE (IF desde \in vivos THEN <<desde>> ELSE <<>>) \o ListaDe(desde + 1, hasta, vivos)

\* [p for p in lista if p <= tope]
FiltrarHasta(lista, tope) == SelectSeq(lista, LAMBDA p : p <= tope)

Elementos(lista) == {lista[k] : k \in 1..Len(lista)}

(* -------------------- criba_eratostenes_segmentada -------------------- *)
\* sqrt_limite = int(math.sqrt(limite)) + 1
SqrtLimite(limite) == ISqrt(limite) + 1

\* the loop over i that strikes the multiples of i from i*i in es_primo_pequeno;
\* vivos is the set of indices whose flag is still True
RECURSIVE CribaBase(_, _, _)
CribaBase(vivos, i, tam) ==
    IF i >= ISqrt(tam) + 1 THEN vivos
    ELSE CribaBase(IF i \in vivos THEN vivos \ Range(i * i, tam, i) ELSE vivos, i + 1, tam)

\* primos_pequenos: the flags 0 and 1 cleared, the base sieve, the list
PrimosPequenos(limite) ==
    LET tam == SqrtLimite(limite)
    IN  ListaDe(0, tam, CribaBase((0..(tam - 1)) \ {0, 1}, 2, tam))

TamanoSegmento(limite) == Min(SqrtLimite(limite), SegmentoMaximo)

\* the first multiple of p struck in the segment that starts at inicio
PrimerMultiplo(inicio, p) ==
    LET m1 == ((inicio + p - 1) \div p) * p
        m2 == IF m1 < inicio THEN m1 + p ELSE m1
    IN  IF m2 = p THEN m2 + p ELSE m2

\* the inner loop over primos_pequenos on one segment [inicio, fin)
RECURSIVE TacharSegmento(_, _, _, _, _)
TacharSegmento(vivos, pequenos, k, inicio, fin) ==
    IF k > Len(pequenos) THEN vivos
    ELSE TacharSegmento(vivos \ Range(PrimerMultiplo(inicio, pequenos[k]), fin, pequenos[k]),
                        pequenos, k + 1, inicio, fin)

\* the primes one segment contributes: primos.extend([...])
PrimosDeSegmento(inicio, limite, pequenos) ==
    LET fin == Min(inicio + TamanoSegmento(limite), limite + 1)
    IN  ListaDe(inicio, fin, TacharSegmento(inicio..(fin - 1), pequenos, 1, inicio, fin))

\* the loop over the segments, from inicio on
RECURSIVE CribarSegmentos(_, _, _, _)
CribarSegmentos(primos, inicio, limite, pequenos) ==
    IF inicio >= limite + 1 THEN primos
    ELSE CribarSegmentos(primos \o PrimosDeSegmento(inicio, limite, pequenos),
                         inicio + TamanoSegmento(limite), limite, pequenos)

\* the whole function
criba_eratostenes_segmentada(limite) ==
    IF limite < 2 THEN <<>>
    ELSE IF limite <= SqrtLimite(limite) THEN FiltrarHasta(PrimosPequenos(limite), limite)
    ELSE CribarSegmentos(PrimosPequenos(limite), SqrtLimite(limite), limite,
                         PrimosPequenos(limite))

\* the flat sieve of the quick test
RECURSIVE CribaSimpleBucle(_, _, _)
CribaSimpleBucle(vivos, i, limite) ==
    IF i >= ISqrt(limite) + 1 THEN vivos
    ELSE CribaSimpleBucle(IF i \in vivos THEN vivos \ Range(i * i, limite + 1, i) ELSE vivos,
                          i + 1, limite)

criba_eratostenes_simple(limite) ==
    IF limite < 2 THEN <<>>
    ELSE ListaDe(0, limite + 1, CribaSimpleBucle((0..limite) \ {0, 1}, 2, limite))

CribaInit ==
    /\ c_limite \in 0..MaxLimite
    /\ c_pc = "fase1"
    /\ c_inicio = 0
    /\ c_pequenos = <<>>
    /\ c_primos = <<>>

\* lines 80-100: the early returns and phase 1
CribaFase1 ==
    /\ c_pc = "fase1"
    /\ IF c_limite < 2
       THEN /\ c_primos' = <<>>
            /\ c_pc' = "fin"
            /\ UNCHANGED <<c_inicio, c_pequenos>>
       ELSE IF c_limite <= SqrtLimite(c_limite)
       THEN /\ c_pequenos' = PrimosPequenos(c_limite)
            /\ c_primos' = FiltrarHasta(PrimosPequenos(c_limite), c_limite)
            /\ c_pc' = "fin"
            /\ UNCHANGED c_inicio
       ELSE /\ c_pequenos' = PrimosPequenos(c_limite)
            /\ c_primos' = PrimosPequenos(c_limite)
            /\ c_inicio' = SqrtLimite(c_limite)
            /\ c_pc' = "segmentos"
    /\ UNCHANGED <<c_limite, rvars, dvars, hvars>>

\* lines 102-116: one iteration of the loop over the segments
CribaSegmento ==
    /\ c_pc = "segmentos"
    /\ c_inicio < c_limite + 1
    /\ c_primos' = c_primos \o PrimosDeSegmento(c_inicio, c_limite, c_pequenos)
    /\ c_inicio' = c_inicio + TamanoSegmento(c_limite)
    /\ UNCHANGED <<c_limite, c_pc, c_pequenos, rvars, dvars, hvars>>

\* line 118
CribaRetorna ==
    /\ c_pc = "segmentos"
    /\ c_inicio >= c_limite + 1
    /\ c_pc' = "fin"
    /\ UNCHANGED <<c_limite, c_inicio, c_pequenos, c_primos, rvars, dvars, hvars>>

CribaNext == CribaFase1 \/ CribaSegmento \/ CribaRetorna

(* ---------------------- verificar_goldbach_rango ---------------------- *)
\* obtener_primos_hasta: the cache is keyed by the exact bound, so a hit returns
\* what the sieve returns for that bound
obtener_primos_hasta(n) == criba_eratostenes_segmentada(n)

\* the start taken as given, the correction of lines 156-157 left out
AjustarInicioSinCorreccion(n_inicio) == n_inicio

\* lines 156-157: an odd start moves to the next even number
AjustarInicio(n_inicio) == IF n_inicio % 2 /= 0 THEN n_inicio + 1 ELSE n_inicio

\* the scan without the break of lines 182-183: every prime p < n is tried
RECURSIVE RepresentacionesSinCorte(_, _, _)
RepresentacionesSinCorte(n, primos, k) ==
    IF k > Len(primos) THEN 0
    ELSE (IF (n - primos[k]) \in Elementos(primos) THEN 1 ELSE 0)
         + RepresentacionesSinCorte(n, primos, k + 1)

\* lines 177-186: the scan of primos for one n, from position k on
RECURSIVE Representaciones(_, _, _)
Representaciones(n, primos, k) ==
    IF k > Len(primos) THEN 0
    ELSE IF primos[k] > n \div 2 THEN 0
    ELSE (IF (n - primos[k]) \in Elementos(primos) THEN 1 ELSE 0)
         + Representaciones(n, primos, k + 1)

\* lines 163-171; min_representaciones is <<>> while it is float('inf')
ResultadoInicial(n_inicio, n_fin) ==
    [rango |-> <<n_inicio, n_fin>>, verificados |-> 0, cumple |-> 0, no_cumple |-> <<>>,
     min_representaciones |-> <<>>, max_representaciones |-> 0, tiempo |-> 0]

\* lines 188-202 with line 188 moved into the branch of line 190: an n without a
\* decomposition is recorded but not counted
AcumularSoloCumple(res, n, reps) ==
    IF reps > 0
    THEN [res EXCEPT !.verificados = @ + 1,
                     !.cumple = @ + 1,
                     !.min_representaciones = IF @ = <<>> THEN <<reps>> ELSE <<Min(@[1], reps)>>,
                     !.max_representaciones = Max(@, reps)]
    ELSE [res EXCEPT !.no_cumple = Append(@, n)]

\* lines 188-202: what one n adds to resultados
Acumular(res, n, reps) ==
    IF reps > 0
    THEN [res EXCEPT !.verificados = @ + 1,
                     !.cumple = @ + 1,
                     !.min_representaciones = IF @ = <<>> THEN <<reps>> ELSE <<Min(@[1], reps)>>,
                     !.max_representaciones = Max(@, reps)]
    ELSE [res EXCEPT !.verificados = @ + 1,
                     !.no_cumple = Append(@, n)]

\* line 204: the wall time of a batch, abstracted to one tick
Cronometrar(res) == [res EXCEPT !.tiempo = 1]

\* the loop of line 176 with a break after line 202: it stops at the first n without
\* a decomposition
RECURSIVE VerificarHastaContraejemplo(_, _, _, _)
VerificarHastaContraejemplo(res, n, n_fin, primos) ==
    IF n >= n_fin + 1 THEN res
    ELSE LET reps == Representaciones(n, primos, 1)
         IN  IF reps = 0 THEN Acumular(res, n, reps)
             ELSE VerificarHastaContraejemplo(Acumular(res, n, reps), n + 2, n_fin, primos)

\* the loop of line 176, from n on
RECURSIVE VerificarDesde(_, _, _, _)
VerificarDesde(res, n, n_fin, primos) ==
    IF n >= n_fin + 1 THEN res
    ELSE VerificarDesde(Acumular(res, n, Representaciones(n, primos, 1)), n + 2, n_fin, primos)

\* the whole function, args = (n_inicio, n_fin, verbose)
verificar_goldbach_rango(n_inicio, n_fin) ==
    Cronometrar(VerificarDesde(ResultadoInicial(AjustarInicio(n_inicio), n_fin),
                               AjustarInicio(n_inicio), n_fin, obtener_primos_hasta(n_fin)))

RangoInit ==
    /\ v_inicio \in 0..MaxRango
    /\ v_fin \in 0..MaxRango
    /\ v_pc = "entrada"
    /\ v_n = 0
    /\ v_primos = <<>>
    /\ v_res = ResultadoInicial(0, 0)
    /\ v_hist = <<>>

\* lines 153-173
RangoEntrada ==
    /\ v_pc = "entrada"
    /\ v_primos' = obtener_primos_hasta(v_fin)
    /\ v_res' = ResultadoInicial(AjustarInicio(v_inicio), v_fin)
    /\ v_n' = AjustarInicio(v_inicio)
    /\ v_pc' = "bucle"
    /\ UNCHANGED <<v_inicio, v_fin, v_hist, cvars, dvars, hvars>>

\* lines 176-202: one iteration; v_hist records (n, representaciones)
RangoIteracion ==
    /\ v_pc = "bucle"
    /\ v_n < v_fin + 1
    /\ v_res' = Acumular(v_res, v_n, Representaciones(v_n, v_primos, 1))
    /\ v_hist' = Append(v_hist, <<v_n, Representaciones(v_n, v_primos, 1)>>)
    /\ v_n' = v_n + 2
    /\ UNCHANGED <<v_inicio, v_fin, v_pc, v_primos, cvars, dvars, hvars>>

\* lines 204-206
RangoRetorna ==
    /\ v_pc = "bucle"
    /\ v_n >= v_fin + 1
    /\ v_res' = Cronometrar(v_res)
    /\ v_pc' = "fin"
    /\ UNCHANGED <<v_inicio, v_fin, v_n, v_primos, v_hist, cvars, dvars, hvars>>

RangoNext == RangoEntrada \/ RangoIteracion \/ RangoRetorna


(* -------------------- verificacion_masiva_goldbach -------------------- *)

\* the default of cargar_progreso (inicio_sesion, a timestamp nobody reads, is left out)
ProgresoInicial ==
    [ultimo_n_verificado |-> NInicial - 2, total_verificados |-> 0, total_cumple |-> 0,
     contraejemplos |-> <<>>, tiempo_total |-> 0]

\* the keys the driver and generar_reporte read in a Progress
Campos ==
    {"ultimo_n_verificado", "total_verificados", "total_cumple", "contraejemplos",
     "tiempo_total"}

\* no read of p raises KeyError
Completo(p) == Campos \subseteq DOMAIN p

\* a file json.load rejects (line 225 raises), held as an object without any key of Campos
Ilegible == [ilegible |-> TRUE]

\* the checkpoint file is <<>> while it does not exist, <<p>> when it holds the object p.
\* Lines 224-227 are in the try: a failing json.load and a missing "ultimo_n_verificado"
\* (read by the log line 227) both end in the default; any other object is returned as it is
cargar_progreso(arch) ==
    IF arch /= <<>> /\ "ultimo_n_verificado" \in DOMAIN arch[1] THEN arch[1]
    ELSE ProgresoInicial

\* the file is missing, unreadable, or an object without some key of a Progress
ArchivoInvalido(arch) == arch = <<>> \/ ~Completo(arch[1])

\* what verificacion_masiva_goldbach hands to its caller at each exit
\* (return progreso at lines 384, 451 and 466, raise at line 457 or out of line 383)
SalidaDriver(fin) == IF fin = "fallida" THEN "raise" ELSE "return"

\* the exit code of main: 0 after the driver returned, 1 from the except clauses
main(salida) == IF salida = "return" THEN 0 ELSE 1

\* the record of one ended session: how it ended, at which statement, and what was reported
Fin(fin, en) ==
    [fin |-> fin, en |-> en, driver |-> SalidaDriver(fin), codigo |-> main(SalidaDriver(fin))]

\* the file after guardar_progreso(p); the write itself is taken as one step
guardar_progreso(p) == <<p>>

\* lines 376-378
AjustarInicioSesion(n_inicio) == IF n_inicio % 2 /= 0 THEN n_inicio + 1 ELSE n_inicio

\* the round with line 414 moved out of the for loop: every worker gets the same batch
LoteRondaRepetida(n, fin, tam, cores) ==
    IF n > fin THEN <<>> ELSE [k \in 1..cores |-> <<n, Min(n + tam - 1, fin)>>]

\* lines 404-414: the batches of one round, cores = the iterations left
RECURSIVE LoteRonda(_, _, _, _)
LoteRonda(n, fin, tam, cores) ==
    IF cores = 0 \/ n > fin THEN <<>>
    ELSE LET n_fin_batch == Min(n + tam - 1, fin)
         IN  <<<<n, n_fin_batch>>>> \o LoteRonda(n_fin_batch + 2, fin, tam, cores - 1)

\* the results taken as they arrive, as imap_unordered would give them
PosicionPorLlegada(k, terminados) == terminados + 1

\* pool.map returns the results in the order of the batches: the result of
\* batch k goes to position k, however many workers finished before it
PosicionResultado(k, terminados) == k

\* lines 424-428 on one result
Fusion424(p, r) == [p EXCEPT !.total_verificados = @ + r.verificados]

Fusion425(p, r) == [p EXCEPT !.total_cumple = @ + r.cumple]

Fusion426(p, r) == [p EXCEPT !.contraejemplos = @ \o r.no_cumple]

Fusion427(p, r) == [p EXCEPT !.ultimo_n_verificado = r.rango[2]]

Fusion428(p, r) == [p EXCEPT !.tiempo_total = @ + r.tiempo]

Fusionar(p, r) == Fusion428(Fusion427(Fusion426(Fusion425(Fusion424(p, r), r), r), r), r)

\* the even numbers a batch (n_inicio, n_fin) is verified on: lines 156-157, 176
NumerosDe(lote) == Range(AjustarInicio(lote[1]), lote[2] + 1, 2)

\* the even numbers a result reports on: its rango, already adjusted
NumerosDeRango(rango) == Range(rango[1], rango[2] + 1, 2)

\* line 423: the results of one round merged in list order, from position k on
RECURSIVE FusionarLote(_, _, _)
FusionarLote(p, lote, k) ==
    IF k > Len(lote) THEN p
    ELSE FusionarLote(Fusionar(p, verificar_goldbach_rango(lote[k][1], lote[k][2])), lote, k + 1)

\* lines 400-428 with no interrupt: the rounds from n on, run to the end
RECURSIVE Corrida(_, _, _, _, _)
Corrida(p, n, fin, tam, cores) ==
    IF n > fin THEN p
    ELSE LET lote == LoteRonda(n, fin, tam, cores)
         IN  Corrida(FusionarLote(p, lote, 1), lote[Len(lote)][2] + 2, fin, tam, cores)

\* lines 373-428: one uninterrupted session that starts with no checkpoint file
UnaSesion(fin, tam, cores) ==
    LET n_inicio == AjustarInicioSesion(ProgresoInicial.ultimo_n_verificado + 2)
    IN  IF n_inicio >= fin THEN ProgresoInicial
        ELSE Corrida(ProgresoInicial, n_inicio, fin, tam, cores)

\* the results of a list merged whole into p, one after the other
RECURSIVE FusionarTodos(_, _, _)
FusionarTodos(p, lista, k) ==
    IF k = 0 THEN p ELSE Fusionar(FusionarTodos(p, lista, k - 1), lista[k])

Pares(desde, hasta) == {n \in desde..hasta : n % 2 = 0}

Terminales == {"ya_completada", "completada", "interrumpida", "fallida"}

\* the positions inside the try block, where KeyboardInterrupt is caught by line 447
EnTry == {"bucle", "map", "m424", "m425", "m426", "m427", "m428", "guardado"}

SinSesion ==
    /\ n_actual = 0
    /\ batches = <<>>
    /\ pendientes = {}
    /\ resultados = <<>>
    /\ indice = 0
    /\ cargado = [de_archivo |-> FALSE, ultimo |-> 0, n_inicio |-> 0, invalido |-> FALSE]
    /\ primero = <<>>
    /\ despachados = {}
    /\ integrados = {}
    /\ desordenado = FALSE

Init ==
    /\ n_final \in NInicial..MaxNFinal
    /\ tamano_batch \in 1..MaxBatch
    /\ num_cores \in 1..MaxCores
    /\ archivo = <<>>
    /\ progreso = ProgresoInicial
    /\ pc = "inicio"
    /\ sesiones = 1
    /\ historial = <<>>
    /\ cubiertos = [n \in Pares(NInicial, n_final) |-> 0]
    /\ contado = [n \in Pares(NInicial, n_final) |-> 0]
    /\ fusionados = <<>>
    /\ SinSesion

\* lines 373-384 and 400; generar_reporte at line 383 reads every key of Campos, and
\* its KeyError is outside the try, so it leaves the driver without a save
Cargar ==
    /\ pc = "inicio"
    /\ LET p == cargar_progreso(archivo)
           n_inicio == AjustarInicioSesion(p.ultimo_n_verificado + 2)
       IN  /\ progreso' = p
           /\ cargado' = [de_archivo |-> archivo /= <<>>,
                          ultimo |-> p.ultimo_n_verificado, n_inicio |-> n_inicio,
                          invalido |-> ArchivoInvalido(archivo)]
           /\ IF n_inicio >= n_final
              THEN /\ pc' = IF Completo(p) THEN "ya_completada" ELSE "fallida"
                   /\ historial' = Append(historial,
                          Fin(IF Completo(p) THEN "ya_completada" ELSE "fallida", pc))
                   /\ UNCHANGED n_actual
              ELSE /\ pc' = "bucle"
                   /\ n_actual' = n_inicio
                   /\ UNCHANGED historial
    /\ UNCHANGED <<n_final, tamano_batch, num_cores, archivo, batches, pendientes,
                   resultados, indice, sesiones, primero, cubiertos, despachados, integrados,
                   desordenado, contado, fusionados, cvars, rvars>>

\* lines 402-420 with line 414 lost: the round is dispatched and n_actual stays
PrepararBatchesSinAvance ==
    /\ pc = "bucle"
    /\ n_actual <= n_final
    /\ LET lote == LoteRonda(n_actual, n_final, tamano_batch, num_cores)
           numeros == UNION {NumerosDe(lote[k]) : k \in 1..Len(lote)}
       IN  /\ batches' = lote
           /\ n_actual' = n_actual
           /\ pendientes' = 1..Len(lote)
           /\ resultados' = [k \in 1..Len(lote) |-> ResultadoInicial(0, 0)]
           /\ primero' = IF primero = <<>> /\ numeros /= {}
                         THEN <<CHOOSE n \in numeros : \A m \in numeros : n <= m>>
                         ELSE primero
           /\ cubiertos' = [n \in DOMAIN cubiertos |->
                              cubiertos[n] + Cardinality({k \in 1..Len(lote) : n \in NumerosDe(lote[k])})]
           /\ despachados' = despachados \cup
                              {<<AjustarInicio(lote[k][1]), lote[k][2]>> : k \in 1..Len(lote)}
    /\ desordenado' = FALSE
    /\ pc' = "map"
    /\ UNCHANGED <<n_final, tamano_batch, num_cores, archivo, progreso, indice, sesiones,
                   historial, cargado, integrados, contado, fusionados, cvars, rvars>>

\* lines 402-420: one round is prepared and handed to pool.map
PrepararBatches ==
    /\ pc = "bucle"
    /\ n_actual <= n_final
    /\ LET lote == LoteRonda(n_actual, n_final, tamano_batch, num_cores)
           numeros == UNION {NumerosDe(lote[k]) : k \in 1..Len(lote)}
       IN  /\ batches' = lote
           /\ n_actual' = lote[Len(lote)][2] + 2
           /\ pendientes' = 1..Len(lote)
           /\ resultados' = [k \in 1..Len(lote) |-> ResultadoInicial(0, 0)]
           /\ primero' = IF primero = <<>> /\ numeros /= {}
                         THEN <<CHOOSE n \in numeros : \A m \in numeros : n <= m>>
                         ELSE primero
           /\ cubiertos' = [n \in DOMAIN cubiertos |->
                              cubiertos[n] + Cardinality({k \in 1..Len(lote) : n \in NumerosDe(lote[k])})]
           /\ despachados' = despachados \cup
                              {<<AjustarInicio(lote[k][1]), lote[k][2]>> : k \in 1..Len(lote)}
    /\ desordenado' = FALSE
    /\ pc' = "map"
    /\ UNCHANGED <<n_final, tamano_batch, num_cores, archivo, progreso, indice, sesiones,
                   historial, cargado, integrados, contado, fusionados, cvars, rvars>>

\* a worker returns the result of batch k and the driver merges it at once, as a
\* completion callback would
WorkerTerminaFusionando ==
    /\ pc = "map"
    /\ \E k \in pendientes :
         LET r == verificar_goldbach_rango(batches[k][1], batches[k][2])
         IN  /\ resultados' = [resultados EXCEPT ![k] = r]
             /\ progreso' = Fusionar(progreso, r)
             /\ pendientes' = pendientes \ {k}
             /\ desordenado' = (desordenado \/ \E j \in pendientes : j < k)
    /\ UNCHANGED <<n_final, tamano_batch, num_cores, archivo, pc, n_actual,
                   batches, indice, sesiones, historial, cargado, primero, cubiertos,
                   despachados, integrados, contado, fusionados, cvars, rvars>>

\* a worker returns the result of batch k
WorkerTermina ==
    /\ pc = "map"
    /\ \E k \in pendientes :
         /\ resultados' = [resultados EXCEPT
                             ![PosicionResultado(k, Len(batches) - Cardinality(pendientes))] =
                                 verificar_goldbach_rango(batches[k][1], batches[k][2])]
         /\ pendientes' = pendientes \ {k}
         /\ desordenado' = (desordenado \/ \E j \in pendientes : j < k)
    /\ UNCHANGED <<n_final, tamano_batch, num_cores, archivo, progreso, pc, n_actual,
                   batches, indice, sesiones, historial, cargado, primero, cubiertos,
                   despachados, integrados, contado, fusionados, cvars, rvars>>

\* line 420 returning as soon as one batch of the round has its result
MapRetornaAlPrimero ==
    /\ pc = "map"
    /\ pendientes /= 1..Len(batches)
    /\ indice' = 1
    /\ pc' = "m424"
    /\ UNCHANGED <<n_final, tamano_batch, num_cores, archivo, progreso, n_actual,
                   batches, pendientes, resultados, hvars, cvars, rvars>>

\* line 420 returns once every batch of the round has its result
MapRetorna ==
    /\ pc = "map"
    /\ pendientes = {}
    /\ indice' = 1
    /\ pc' = "m424"
    /\ UNCHANGED <<n_final, tamano_batch, num_cores, archivo, progreso, n_actual,
                   batches, pendientes, resultados, hvars, cvars, rvars>>

\* line 424; on a Progress without "total_verificados" the += raises KeyError, which
\* lines 453-457 catch: save, then raise
Linea424 ==
    /\ pc = "m424"
    /\ IF "total_verificados" \in DOMAIN progreso
       THEN /\ progreso' = Fusion424(progreso, resultados[indice])
            /\ contado' = [n \in DOMAIN contado |->
                             IF n \in NumerosDeRango(resultados[indice].rango)
                             THEN contado[n] + 1
                             ELSE contado[n]]
            /\ pc' = "m425"
            /\ UNCHANGED <<archivo, historial>>
       ELSE /\ archivo' = guardar_progreso(progreso)
            /\ pc' = "fallida"
            /\ historial' = Append(historial, Fin("fallida", pc))
            /\ UNCHANGED <<progreso, contado>>
    /\ UNCHANGED <<n_final, tamano_batch, num_cores, n_actual, batches,
                   pendientes, resultados, indice, sesiones, cargado, primero,
                   cubiertos, despachados, integrados, desordenado, fusionados, cvars, rvars>>

\* line 425
Linea425 ==
    /\ pc = "m425"
    /\ progreso' = Fusion425(progreso, resultados[indice])
    /\ pc' = "m426"
    /\ UNCHANGED <<n_final, tamano_batch, num_cores, archivo, n_actual, batches,
                   pendientes, resultados, indice, hvars, cvars, rvars>>

\* line 426
Linea426 ==
    /\ pc = "m426"
    /\ progreso' = Fusion426(progreso, resultados[indice])
    /\ pc' = "m427"
    /\ UNCHANGED <<n_final, tamano_batch, num_cores, archivo, n_actual, batches,
                   pendientes, resultados, indice, hvars, cvars, rvars>>

\* line 427
Linea427 ==
    /\ pc = "m427"
    /\ progreso' = Fusion427(progreso, resultados[indice])
    /\ fusionados' = Append(fusionados, resultados[indice])
    /\ pc' = "m428"
    /\ UNCHANGED <<n_final, tamano_batch, num_cores, archivo, n_actual, batches,
                   pendientes, resultados, indice, sesiones, historial, cargado, primero,
                   cubiertos, despachados, integrados, desordenado, contado, cvars, rvars>>

\* line 428, then the next result of line 423 or on to line 431
Linea428 ==
    /\ pc = "m428"
    /\ progreso' = Fusion428(progreso, resultados[indice])
    /\ integrados' = integrados \cup {resultados[indice].rango}
    /\ IF indice < Len(resultados)
       THEN /\ indice' = indice + 1
            /\ pc' = "m424"
       ELSE /\ pc' = "guardado"
            /\ UNCHANGED indice
    /\ UNCHANGED <<n_final, tamano_batch, num_cores, archivo, n_actual, batches,
                   pendientes, resultados, sesiones, historial, cargado, primero,
                   cubiertos, despachados, desordenado, contado, fusionados, cvars, rvars>>

\* lines 431-435 when intervalo_guardado has elapsed
GuardarPeriodico ==
    /\ pc = "guardado"
    /\ archivo' = guardar_progreso(progreso)
    /\ pc' = "bucle"
    /\ UNCHANGED <<n_final, tamano_batch, num_cores, progreso, n_actual, batches,
                   pendientes, resultados, indice, hvars, cvars, rvars>>

\* line 432 when it has not
SinGuardar ==
    /\ pc = "guardado"
    /\ pc' = "bucle"
    /\ UNCHANGED <<n_final, tamano_batch, num_cores, archivo, progreso, n_actual,
                   batches, pendientes, resultados, indice, hvars, cvars, rvars>>

\* line 402 false, then lines 459-466
Completar ==
    /\ pc = "bucle"
    /\ n_actual > n_final
    /\ archivo' = guardar_progreso(progreso)
    /\ pc' = "completada"
    /\ historial' = Append(historial, Fin("completada", pc))
    /\ UNCHANGED <<n_final, tamano_batch, num_cores, progreso, n_actual, batches,
                   pendientes, resultados, indice, sesiones, cargado, primero, cubiertos,
                   despachados, integrados, desordenado, contado, fusionados, cvars, rvars>>

\* the handler of lines 447-451 without its line 449
InterrumpirSinGuardar ==
    /\ pc \in EnTry
    /\ pc' = "interrumpida"
    /\ historial' = Append(historial, Fin("interrumpida", pc))
    /\ UNCHANGED <<n_final, tamano_batch, num_cores, archivo, progreso, n_actual, batches,
                   pendientes, resultados, indice, sesiones, cargado, primero, cubiertos,
                   despachados, integrados, desordenado, contado, fusionados, cvars, rvars>>

\* lines 447-451: KeyboardInterrupt arrives before the statement at pc
Interrumpir ==
    /\ pc \in EnTry
    /\ archivo' = guardar_progreso(progreso)
    /\ pc' = "interrumpida"
    /\ historial' = Append(historial, Fin("interrumpida", pc))
    /\ UNCHANGED <<n_final, tamano_batch, num_cores, progreso, n_actual, batches,
                   pendientes, resultados, indice, sesiones, cargado, primero, cubiertos,
                   despachados, integrados, desordenado, contado, fusionados, cvars, rvars>>

\* lines 453-457: a worker raises, pool.map re-raises it in the driver
WorkerFalla ==
    /\ pc = "map"
    /\ pendientes /= {}
    /\ archivo' = guardar_progreso(progreso)
    /\ pc' = "fallida"
    /\ historial' = Append(historial, Fin("fallida", pc))
    /\ UNCHANGED <<n_final, tamano_batch, num_cores, progreso, n_actual, batches,
                   pendientes, resultados, indice, sesiones, cargado, primero, cubiertos,
                   despachados, integrados, desordenado, contado, fusionados, cvars, rvars>>

\* the program is run again
NuevaSesion ==
    /\ pc \in Terminales
    /\ sesiones < MaxSesiones
    /\ sesiones' = sesiones + 1
    /\ pc' = "inicio"
    /\ n_actual' = 0
    /\ batches' = <<>>
    /\ pendientes' = {}
    /\ resultados' = <<>>
    /\ indice' = 0
    /\ cargado' = [de_archivo |-> FALSE, ultimo |-> 0, n_inicio |-> 0, invalido |-> FALSE]
    /\ primero' = <<>>
    /\ despachados' = {}
    /\ integrados' = {}
    /\ desordenado' = FALSE
    /\ cubiertos' = [n \in DOMAIN cubiertos |-> 0]
    /\ UNCHANGED <<n_final, tamano_batch, num_cores, archivo, progreso, historial,
                   contado, fusionados, cvars, rvars>>

Next ==
    \/ Cargar
    \/ PrepararBatches
    \/ WorkerTermina
    \/ MapRetorna
    \/ Linea424
    \/ Linea425
    \/ Linea426
    \/ Linea427
    \/ Linea428
    \/ GuardarPeriodico
    \/ SinGuardar
    \/ Completar
    \/ Interrumpir
    \/ WorkerFalla
    \/ NuevaSesion

(* --------------------------- specifications --------------------------- *)
CribaQuieta ==
    /\ c_limite = 0
    /\ c_pc = "fin"
    /\ c_inicio = 0
    /\ c_pequenos = <<>>
    /\ c_primos = <<>>

RangoQuieto ==
    /\ v_inicio = 0
    /\ v_fin = 0
    /\ v_pc = "fin"
    /\ v_n = 0
    /\ v_primos = <<>>
    /\ v_res = ResultadoInicial(0, 0)
    /\ v_hist = <<>>

DriverQuieto ==
    /\ n_final = NInicial
    /\ tamano_batch = 1
    /\ num_cores = 1
    /\ archivo = <<>>
    /\ progreso = ProgresoInicial
    /\ pc = "ya_completada"
    /\ sesiones = MaxSesiones
    /\ historial = <<>>
    /\ cubiertos = <<>>
    /\ contado = <<>>
    /\ fusionados = <<>>
    /\ SinSesion

InitCriba == CribaInit /\ RangoQuieto /\ DriverQuieto

InitRango == RangoInit /\ CribaQuieta /\ DriverQuieto

InitDriver == Init /\ CribaQuieta /\ RangoQuieto

\* the checkpoint files a session can find that no session of this configuration wrote:
\* no file, text that is not JSON, objects with keys missing, and the file of a run
\* that was configured to start below NInicial; the session that finds it and one more
\* are followed
ArchivosPrevios(fin) ==
    {<<>>, <<Ilegible>>, <<[total_verificados |-> 0]>>,
     <<[ultimo_n_verificado |-> NInicial - 2]>>, <<[ultimo_n_verificado |-> fin]>>,
     <<[ProgresoInicial EXCEPT !.ultimo_n_verificado = 0]>>}

InitArchivo ==
    /\ n_final \in NInicial..MaxNFinal
    /\ tamano_batch \in 1..MaxBatch
    /\ num_cores \in 1..MaxCores
    /\ archivo \in ArchivosPrevios(n_final)
    /\ progreso = ProgresoInicial
    /\ pc = "inicio"
    /\ sesiones = MaxSesiones - 1
    /\ historial = <<>>
    /\ cubiertos = [n \in Pares(NInicial, n_final) |-> 0]
    /\ contado = [n \in Pares(NInicial, n_final) |-> 0]
    /\ fusionados = <<>>
    /\ SinSesion
    /\ CribaQuieta
    /\ RangoQuieto

SpecCriba == InitCriba /\ [][CribaNext]_vars

SpecRango == InitRango /\ [][RangoNext]_vars

Spec == InitDriver /\ [][Next]_vars

SpecArchivo == InitArchivo /\ [][Next]_vars

\* the steps of a run in which no KeyboardInterrupt arrives and no worker raises
NextSinFallos ==
    \/ Cargar
    \/ PrepararBatches
    \/ WorkerTermina
    \/ MapRetorna
    \/ Linea424
    \/ Linea425
    \/ Linea426
    \/ Linea427
    \/ Linea428
    \/ GuardarPeriodico
    \/ SinGuardar
    \/ Completar

\* the statements of the driver itself: the main process keeps running
PasoDelDriver ==
    \/ Cargar
    \/ PrepararBatches
    \/ MapRetorna
    \/ Linea424
    \/ Linea425
    \/ Linea426
    \/ Linea427
    \/ Linea428
    \/ GuardarPeriodico
    \/ SinGuardar
    \/ Completar

\* some batch in flight returns: the steps of WorkerTermina, seen on pendientes alone
WorkerDevuelve == pc = "map" /\ pendientes' \in (SUBSET pendientes) \ {pendientes}

\* one run from no checkpoint: the driver always takes its next statement and every
\* batch handed to pool.map returns
SpecSinFallos ==
    InitDriver /\ [][NextSinFallos]_vars /\ WF_vars(PasoDelDriver) /\ WF_pendientes(WorkerDevuelve)

(* ------------------------------ claims -------------------------------- *)
EsPrimo(x) == x >= 2 /\ \A d \in 2..(x - 1) : x % d /= 0

\* the number of unordered pairs of primes p <= q with p + q = n
ParesGoldbach(n) == Cardinality({p \in 2..(n \div 2) : EsPrimo(p) /\ EsPrimo(n - p)})

Totales(p) == <<p.total_verificados, p.total_cumple, Elementos(p.contraejemplos)>>

CuatroCampos(p) ==
    <<p.total_verificados, p.total_cumple, p.contraejemplos, p.ultimo_n_verificado>>

\* C1: the batches dispatched by one session that runs to the end cover exactly
\* the even numbers of [rangeStart, rangeEnd]: no even number is iterated by two
\* batches, and none of the range is iterated by no batch.
C1_CoberturaExacta ==
    /\ \A n \in DOMAIN cubiertos : cubiertos[n] <= 1
    /\ pc = "completada" => \A n \in Pares(cargado.n_inicio, n_final) : cubiertos[n] = 1

\* C2: between merges, every even number of [n_inicial, ultimo_n_verificado] has
\* been counted exactly once in the totals and no even number above
\* ultimo_n_verificado has been counted, over any number of sessions.
C2_ExactamenteUnaVez ==
    pc \notin {"m425", "m426", "m427"} =>
        \A n \in DOMAIN contado :
            /\ n <= progreso.ultimo_n_verificado => contado[n] = 1
            /\ n > progreso.ultimo_n_verificado => contado[n] = 0

\* C3: a run of two sessions, the first interrupted after a completed round and the
\* second run to completion from its checkpoint, ends with the total_verificados,
\* total_cumple and contraejemplos of the run done in one session.
C3_UnaODosSesiones ==
    (/\ Len(historial) = 2
     /\ pc \in Terminales
     /\ historial[1].fin = "interrumpida"
     /\ historial[1].en \in {"bucle", "guardado"}
     /\ historial[2].fin \in {"completada", "ya_completada"})
    => Totales(progreso) = Totales(UnaSesion(n_final, tamano_batch, num_cores))

\* C4: a session that loaded a checkpoint whose ultimo_n_verificado is an even L
\* with L + 2 <= n_final verifies L + 2 first: it does not end as already
\* completed, and the first number it verifies is L + 2.
C4_PuntoDeReanudacion ==
    (/\ pc /= "inicio"
     /\ cargado.de_archivo
     /\ cargado.ultimo % 2 = 0
     /\ cargado.ultimo + 2 <= n_final)
    => /\ pc /= "ya_completada"
       /\ primero /= <<>> => primero[1] = cargado.ultimo + 2

\* C5: for every limite >= 0 the segmented sieve returns exactly the primes of
\* [2, limite], the same set as criba_eratostenes_simple(limite).
C5_CribaIgualSimple ==
    c_pc = "fin" => Elementos(c_primos) = Elementos(criba_eratostenes_simple(c_limite))

\* C6: for a batch with start >= 6, the count of every even n verified is the number
\* of unordered prime pairs p <= q with p + q = n, n is in no_cumple iff that count
\* is 0, and so no_cumple is empty and cumple = verificados on the ranges checked.
C6_ConteoExacto ==
    (v_inicio >= 6 /\ v_pc /= "entrada") =>
        /\ \A k \in 1..Len(v_hist) : v_hist[k][2] = ParesGoldbach(v_hist[k][1])
        /\ Elementos(v_res.no_cumple) =
               {v_hist[k][1] : k \in {j \in 1..Len(v_hist) : ParesGoldbach(v_hist[j][1]) = 0}}
        /\ v_res.no_cumple = <<>>
        /\ v_res.cumple = v_res.verificados
        /\ v_res.verificados = Len(v_hist)

C6_Testigo ==
    /\ v_pc = "fin"
    /\ v_inicio = 6
    /\ \E k \in 1..Len(v_hist) : v_hist[k] = <<6, 1>>
    /\ \E k \in 1..Len(v_hist) : v_hist[k] = <<10, 2>>

\* C7: given an odd start s, the verifier reports s + 1 as the start of its range and
\* verifies exactly the even numbers of [s + 1, end]; s itself is never verified.
C7_InicioImpar ==
    (v_inicio % 2 = 1 /\ v_pc /= "entrada") =>
        /\ v_res.rango = <<v_inicio + 1, v_fin>>
        /\ \A k \in 1..Len(v_hist) : v_hist[k][1] \in Pares(v_inicio + 1, v_fin)
        /\ v_pc = "fin" =>
              /\ {v_hist[k][1] : k \in 1..Len(v_hist)} = Pares(v_inicio + 1, v_fin)
              /\ Len(v_hist) = Cardinality(Pares(v_inicio + 1, v_fin))
              /\ v_res.verificados = Len(v_hist)

C7_Testigo ==
    /\ v_pc = "fin"
    /\ v_inicio = 7
    /\ v_res.rango[1] = 8
    /\ v_res.verificados >= 2

\* C8: a complete run from no checkpoint ends with the total_verificados, the
\* total_cumple and the set of contraejemplos of the run with one worker, for every
\* num_cores and every order in which the workers finish.
C8_IgualConUnCore ==
    (sesiones = 1 /\ pc \in {"completada", "ya_completada"}) =>
        Totales(progreso) = Totales(UnaSesion(n_final, tamano_batch, 1))

C8_Testigo ==
    /\ sesiones = 1
    /\ pc = "completada"
    /\ num_cores >= 2
    /\ desordenado
    /\ progreso.total_verificados >= 3

\* C9: ultimo_n_verificado never decreases, within a session or across sessions, and
\* line 427 sets it to the end of a batch only when every batch dispatched in the
\* session with a smaller start has been merged.
C9_UltimoMonotono ==
    [][/\ progreso'.ultimo_n_verificado >= progreso.ultimo_n_verificado
       /\ (pc = "m427" /\ pc' = "m428") =>
             /\ progreso'.ultimo_n_verificado = resultados[indice].rango[2]
             /\ \A d \in despachados :
                   d[1] < resultados[indice].rango[1] => d \in integrados]_vars

C9_Testigo ==
    /\ pc = "m428"
    /\ desordenado
    /\ indice = 1
    /\ Len(resultados) >= 2
    /\ progreso.ultimo_n_verificado = resultados[1].rango[2]

\* C10: whenever the checkpoint file has been written, its total_verificados,
\* total_cumple, contraejemplos and ultimo_n_verificado are those of one and the
\* same list of whole merged batches.
C10_GuardadoCoherente ==
    archivo /= <<>> =>
        \E k \in 0..Len(fusionados) :
            CuatroCampos(archivo[1]) = CuatroCampos(FusionarTodos(ProgresoInicial, fusionados, k))

\* C11: when the session loaded a checkpoint file that was missing, unreadable or
\* without some key of a Progress, cargar_progreso returned the default Progress
\* (ultimo_n_verificado = NInicial - 2 and every key present), and no exception of this
\* session that reaches the caller of the driver comes from anywhere but a worker.
C11_ArchivoInvalidoDaDefault ==
    cargado.invalido =>
        /\ cargado.ultimo = NInicial - 2
        /\ Completo(progreso)
        /\ (pc = "fallida" => historial[Len(historial)].en = "map")

\* C12: when the driver has left its dispatch loop after dispatching at least one
\* batch, by normal completion, by KeyboardInterrupt or by another exception, the
\* checkpoint file holds the Progress the driver returns or re-raises with:
\* guardar_progreso was called with the current Progress on the way out.
C12_SalidaConGuardado ==
    (pc \in {"completada", "interrumpida", "fallida"} /\ despachados /= {}) =>
        archivo = guardar_progreso(progreso)

C12_Testigo ==
    /\ pc = "interrumpida"
    /\ despachados /= {}
    /\ progreso.total_verificados > 0
    /\ archivo = guardar_progreso(progreso)

\* C13: two sessions that ended differently, among completed (the early return
\* included), interrupted and failed, were reported to the caller with a different
\* status: the pair of what the driver did (return or raise) and the exit code of main.
C13_TresResultados ==
    \A j, k \in 1..Len(historial) :
        LET Clase(f) == IF f = "ya_completada" THEN "completada" ELSE f
        IN  Clase(historial[j].fin) /= Clase(historial[k].fin) =>
                <<historial[j].driver, historial[j].codigo>> /=
                    <<historial[k].driver, historial[k].codigo>>

\* C14: when the driver has ended on a completed path, the early "already completed"
\* return or the normal end of the loop, every even number of [n_inicial, n_final]
\* has been verified and merged by this session or an earlier one.
C14_CompletaSinHuecos ==
    pc \in {"ya_completada", "completada"} =>
        \A n \in Pares(NInicial, n_final) : contado[n] >= 1

\* C15: an even number without a decomposition does not stop the run. Every result
\* a worker returned counts every even number of its range, the ones without a
\* decomposition in no_cumple; the no_cumple of every merged result is in the
\* contraejemplos of the Progress; and a session that ends as completed has dispatched
\* up to n_final and merged every batch it dispatched.
C15_ContraejemploNoDetiene ==
    /\ \A k \in (1..Len(resultados)) \ pendientes :
          /\ resultados[k].verificados = Cardinality(NumerosDeRango(resultados[k].rango))
          /\ resultados[k].cumple + Len(resultados[k].no_cumple) = resultados[k].verificados
    /\ "contraejemplos" \in DOMAIN progreso =>
          \A j \in 1..Len(fusionados) :
              Elementos(fusionados[j].no_cumple) \subseteq Elementos(progreso.contraejemplos)
    /\ pc = "completada" => (n_actual > n_final /\ despachados \subseteq integrados)

\* the session resumed below NInicial, found 2 without a decomposition, and went on
\* to the end over at least two more batches
C15_Testigo ==
    /\ pc = "completada"
    /\ 2 \in Elementos(progreso.contraejemplos)
    /\ progreso.total_verificados > Len(progreso.contraejemplos)
    /\ Cardinality(integrados) >= 3
    /\ despachados \subseteq integrados

C17_TamanoYNumeroDeBatches ==
    /\ pc = "map" =>
          \A k \in 1..Len(batches) :
              (k < Len(batches) \/ n_actual <= n_final) =>
                  Cardinality(NumerosDe(batches[k])) = tamano_batch
    /\ pc = "completada" =>
          LET numeros == (n_final - cargado.n_inicio) \div 2 + 1
          IN  Cardinality(despachados) = (numeros + tamano_batch - 1) \div tamano_batch

\* C18: in the Progress the driver holds and in the Progress of the checkpoint file,
\* ultimo_n_verificado is even and at least n_inicial - 2.
C18_UltimoParYAcotado ==
    LET Valido(p) ==
            p.ultimo_n_verificado % 2 = 0 /\ p.ultimo_n_verificado >= NInicial - 2
    IN  /\ Valido(progreso)
        /\ archivo /= <<>> => Valido(archivo[1])

\* C19: for a configuration with a batch size below 2, a worker count below 1 or an
\* end below the start, the driver dispatches no batch.
C19_ConfiguracionValidada ==
    (tamano_batch < 2 \/ num_cores < 1 \/ n_final < NInicial) => despachados = {}

\* C20: while a round of pool.map runs the Progress does not change, so when a worker
\* raises, the handler saves the Progress the round started with, no result of the
\* round merged, and the driver ends by raising to its caller.
C20_FalloSinFusion ==
    [][pc = "map" =>
          /\ progreso' = progreso
          /\ pc' = "fallida" =>
                /\ archivo' = guardar_progreso(progreso)
                /\ historial'[Len(historial')].driver = "raise"]_vars

\* a worker raised in a later round, after another worker of that round had returned
C20_Testigo ==
    /\ pc = "fallida"
    /\ historial[Len(historial)].en = "map"
    /\ pendientes /= {}
    /\ Cardinality(pendientes) < Len(batches)
    /\ progreso.total_verificados > 0
    /\ archivo = guardar_progreso(progreso)

\* C21: the list the segmented sieve builds is strictly ascending at every step, so no
\* value is repeated; while the segments are sieved, everything emitted lies in the
\* ranges already done, which end where the next segment starts; and when the function
\* returns for a limite >= 2, the base range [0, sqrt_limite) and the segments have
\* covered every integer of [0, limite] and nothing above limite was emitted.
C21_AscendenteYContiguo ==
    LET hecho == IF c_pc = "fase1" THEN 0
                 ELSE IF c_inicio = 0 THEN SqrtLimite(c_limite)
                 ELSE c_inicio
    IN  /\ \A j \in 1..(Len(c_primos) - 1) : c_primos[j] < c_primos[j + 1]
        /\ c_pc = "segmentos" =>
              /\ c_inicio >= SqrtLimite(c_limite)
              /\ Elementos(c_primos) \subseteq 0..(c_inicio - 1)
        /\ (c_pc = "fin" /\ c_limite >= 2) =>
              /\ hecho >= c_limite + 1
              /\ Elementos(c_primos) \subseteq 0..c_limite

\* C22: every result a worker returned has verificados = cumple + len(no_cumple); and
\* as long as every merge so far was of a whole batch (no session was interrupted
\* between lines 424 and 426, and the driver is not between them now), the Progress the
\* driver holds and the Progress in the checkpoint file, loaded again or not, have
\* total_verificados = total_cumple + len(contraejemplos).
C22_TotalesCuadran ==
    LET Cuadra(p) ==
            Completo(p) => p.total_verificados = p.total_cumple + Len(p.contraejemplos)
        EnFusion == {"m425", "m426"}
    IN  /\ \A k \in (1..Len(resultados)) \ pendientes :
              resultados[k].verificados =
                  resultados[k].cumple + Len(resultados[k].no_cumple)
        /\ (pc \notin EnFusion /\ \A j \in 1..Len(historial) : historial[j].en \notin EnFusion)
              => /\ Cuadra(progreso)
                 /\ archivo /= <<>> => Cuadra(archivo[1])

\* a second session loaded what the first one saved, contraejemplos not empty, and
\* merged more batches to the end
C22_Testigo ==
    /\ Len(historial) = 2
    /\ historial[1].fin = "interrumpida"
    /\ historial[1].en = "guardado"
    /\ pc = "completada"
    /\ cargado.ultimo > 0
    /\ integrados /= {}
    /\ progreso.contraejemplos /= <<>>
    /\ progreso.total_cumple >= 2
    /\ archivo = guardar_progreso(progreso)

\* C23: in a run without interrupt and without worker failure in which every batch
\* returns, every round moves n_actual up, and a driver that has entered its dispatch
\* loop reaches the final save with n_actual > n_final.
C23_BucleTermina ==
    /\ [][(pc = "bucle" /\ pc' = "map") => n_actual' > n_actual]_vars
    /\ (pc = "bucle") ~>
           (pc = "completada" /\ n_actual > n_final /\ archivo = guardar_progreso(progreso))

\* the loop ended after at least three rounds of one batch
C23_Testigo ==
    /\ pc = "completada"
    /\ num_cores = 1
    /\ Cardinality(integrados) >= 3
    /\ n_actual > n_final
    /\ archivo = guardar_progreso(progreso)

====
